---- MODULE Spec2Model ----
(***************************************************************************)
(* A model of the chat application's turn handling: the request handler    *)
(* chat_send (chat/views.py), the model gateway call_moonshot and its      *)
(* retry wrapper (chat/services.py), the search helper and its caches, and *)
(* the tool-call orchestrator call_moonshot_with_tools, whose code is      *)
(* exercised by chat/tests.py and described in the specification.          *)
(*                                                                         *)
(* A text is a sequence of strings: one string per character wherever the  *)
(* code looks into the text, and one string for a whole run of characters  *)
(* in the prompts the code only passes along.                              *)
(***************************************************************************)
EXTENDS Integers, Sequences, FiniteSets, TLC

VARIABLES
    environ,        \* os.environ: which of MOONSHOT_API_KEY / MOONSHOT_MODEL are set
    sessions,       \* ChatSession rows: id -> [user, title, updated_at]
    messages,       \* ChatMessage rows in creation order
    queryCache,     \* django cache entries "mcp:<sha256(normalized)>"
    sessionCache,   \* django cache entries "mcp:session:<session id>"
    clock,          \* timezone.now(), a counter advanced by every read
    turns,          \* number of chat_send requests handled so far
    last,           \* the response of the latest chat_send request and what it did
    gw,             \* the latest direct call of call_moonshot_with_retry
    orch,           \* the state of the running tool-call orchestrator
    helper          \* the latest direct call of a text helper of chat/views.py

vars == <<environ, sessions, messages, queryCache, sessionCache, clock, turns, last, gw, orch,
          helper>>

-----------------------------------------------------------------------------
(* Bounds of the model.                                                    *)

MaxTurns == 2
MaxSessions == 2
MaxGatewayCalls == 1
MaxToolRuns == 1
MaxHistoryTurns == 5
MaxPrefixLen == 2
MaxQueryLen == 3

-----------------------------------------------------------------------------
(* Characters and the str methods the code uses.                           *)

LowerCase == <<"a", "b", "c", "d", "e", "f", "g", "h", "i", "j", "k", "l", "m", "n", "o", "p", "q", "r", "s", "t", "u", "v", "w", "x", "y", "z">>
UpperCase == <<"A", "B", "C", "D", "E", "F", "G", "H", "I", "J", "K", "L", "M", "N", "O", "P", "Q", "R", "S", "T", "U", "V", "W", "X", "Y", "Z">>
DigitChars == {"0", "1", "2", "3", "4", "5", "6", "7", "8", "9"}
\* U+0130, the one character whose lower() is two characters: "i" and U+0307
CapIDot == "U+0130"
CombDot == "U+0307"

Range(s) == {s[i] : i \in 1..Len(s)}
AlnumChars == Range(LowerCase) \cup Range(UpperCase) \cup DigitChars \cup {CapIDot}
SpaceChars == {" ", "\n", "\t"}
LowerOf == [c \in Range(UpperCase) |-> LowerCase[CHOOSE i \in 1..Len(UpperCase) : UpperCase[i] = c]]

\* str.isalnum of one character
isalnum(c) == c \in AlnumChars

\* str.isspace of one character
isspace(c) == c \in SpaceChars

\* str.lower of one character (a sequence: lower() may lengthen the text)
char_lower(c) ==
    IF c \in DOMAIN LowerOf THEN <<LowerOf[c]>>
    ELSE IF c = CapIDot THEN <<"i", CombDot>> ELSE <<c>>

\* str.lower: character by character; position by position as long as no
\* character lengthens
RECURSIVE str_lower(_)
str_lower(s) ==
    IF \A i \in 1..Len(s) : s[i] # CapIDot
    THEN [i \in 1..Len(s) |-> char_lower(s[i])[1]]
    ELSE char_lower(Head(s)) \o str_lower(Tail(s))

RECURSIVE str_lstrip(_)
str_lstrip(s) == IF s # <<>> /\ isspace(Head(s)) THEN str_lstrip(Tail(s)) ELSE s

RECURSIVE str_rstrip(_)
str_rstrip(s) ==
    IF s # <<>> /\ isspace(s[Len(s)]) THEN str_rstrip(SubSeq(s, 1, Len(s) - 1)) ELSE s

str_strip(s) == str_rstrip(str_lstrip(s))

\* s[:n]
str_prefix(s, n) == SubSeq(s, 1, IF n < Len(s) THEN n ELSE Len(s))

str_startswith(s, p) == Len(p) <= Len(s) /\ SubSeq(s, 1, Len(p)) = p

\* str.find: the 0-based index of the first occurrence of sub, or -1
str_find(s, sub) ==
    LET found == {j \in 0..(Len(s) - Len(sub)) : SubSeq(s, j + 1, j + Len(sub)) = sub}
    IN IF found = {} THEN -1 ELSE CHOOSE j \in found : \A k \in found : j <= k

\* sub in s
str_contains(s, sub) == str_find(s, sub) # -1

\* str.split(): the maximal runs of non-whitespace characters, in order
str_split(s) ==
    LET starts == {i \in 1..Len(s) : ~isspace(s[i]) /\ (i = 1 \/ isspace(s[i - 1]))}
        ends == {i \in 1..Len(s) : ~isspace(s[i]) /\ (i = Len(s) \/ isspace(s[i + 1]))}
        nth(set, k) == CHOOSE i \in set : Cardinality({j \in set : j < i}) = k - 1
    IN [k \in 1..Cardinality(starts) |-> SubSeq(s, nth(starts, k), nth(ends, k))]

\* sep.join(words)
RECURSIVE str_join(_, _)
str_join(sep, words) ==
    IF words = <<>> THEN <<>>
    ELSE IF Len(words) = 1 THEN words[1]
    ELSE words[1] \o sep \o str_join(sep, Tail(words))

-----------------------------------------------------------------------------
(* chat/views.py: constants and pure helpers.                              *)

MAX_IMAGE_BYTES == 4 * 1024 * 1024
MAX_HISTORY == 8
TITLE_LEN == 60
DESCRIPTION_LEN == 500
MAX_SOURCES == 6
MAX_FETCH == 2

SMALLTALK_SET ==
    { <<"h", "i">>, <<"h", "e", "l", "l", "o">>, <<"h", "e", "y">>, <<"y", "o">>, <<"s", "u", "p">>, <<"h", "o", "l", "a">> }

FRESHNESS_KEYWORDS ==
    { <<"l", "a", "t", "e", "s", "t">>, <<"t", "o", "d", "a", "y">>, <<"n", "o", "w">>, <<"c", "u", "r", "r", "e", "n", "t">>, <<"p", "r", "i", "c", "e">>,
      <<"r", "e", "l", "e", "a", "s", "e">>, <<"v", "e", "r", "s", "i", "o", "n">>, <<"n", "e", "w">> }

MIN_TOKEN_OVERLAP_NUM == 4
MIN_TOKEN_OVERLAP_DEN == 10
DEFAULT_CACHE_TTL_SECONDS == 30 * 60
FRESH_CACHE_TTL_SECONDS == 15 * 60

\* _normalize_query without the split and join
_normalize_query_uncollapsed(text) ==
    LET lowered == str_lower(text)
    IN [i \in 1..Len(lowered) |-> IF isalnum(lowered[i]) THEN lowered[i] ELSE " "]

\* lines 79-81
_normalize_query(text) ==
    LET lowered == str_lower(text)
        cleaned == [i \in 1..Len(lowered) |-> IF isalnum(lowered[i]) THEN lowered[i] ELSE " "]
    IN str_join(<<" ">>, str_split(cleaned))

_tokenize(text) ==
    LET words == str_split(_normalize_query(text))
    IN {words[i] : i \in {j \in 1..Len(words) : Len(words[j]) > 2}}

\* _can_reuse_context satisfied by any shared token
_can_reuse_context_any_overlap(current_query, previous_query) ==
    _tokenize(current_query) \cap _tokenize(previous_query) # {}

\* lines 88-94
_can_reuse_context(current_query, previous_query) ==
    LET current_tokens == _tokenize(current_query)
        previous_tokens == _tokenize(previous_query)
        overlap == current_tokens \cap previous_tokens
    IN IF current_tokens = {} \/ previous_tokens = {} THEN FALSE
       ELSE Cardinality(overlap) * MIN_TOKEN_OVERLAP_DEN
                >= MIN_TOKEN_OVERLAP_NUM * Cardinality(previous_tokens)

_cache_ttl_for_query(query) ==
    IF _tokenize(query) \cap FRESHNESS_KEYWORDS # {}
    THEN FRESH_CACHE_TTL_SECONDS ELSE DEFAULT_CACHE_TTL_SECONDS

_payload_has_context(payload) == payload.results # <<>> \/ payload.fetched # <<>>

NON_DISCLOSURE_TEXT ==
    <<"I", "'", "m", " ", "A", "x", "i", "o", "m", ",", " ", "a", "n", " ", "A", "I", " ", "r", "e", "s", "e", "a", "r", "c", "h", " ", "a", "s", "s", "i", "s", "t", "a", "n", "t", ".", " ", "I", " ", "d", "o", "n", "'", "t", " ", "d", "i", "s", "c", "l", "o", "s", "e", " ", "u", "n", "d", "e", "r", "l", "y", "i", "n", "g", " ", "m", "o", "d", "e", "l", " ", "o", "r", " ", "p", "r", "o", "v", "i", "d", "e", "r", " ", "d", "e", "t", "a", "i", "l", "s", ".", " ", "I", "f", " ", "y", "o", "u", " ", "h", "a", "v", "e", " ", "a", " ", "t", "a", "s", "k", ",", " ", "I", "'", "m", " ", "r", "e", "a", "d", "y", " ", "t", "o", " ", "h", "e", "l", "p", ".">>
\* the source's apostrophe in "Here's" is U+2019; it is written ' here
SEAHORSE_TEXT ==
    <<"H", "e", "r", "e", "'", "s", " ", "a", " ", "s", "e", "a", "h", "o", "r", "s", "e", " ", "i", "m", "a", "g", "e", ":", "\n", "\n", "!", "[", "S", "e", "a", "h", "o", "r", "s", "e", "]", "(", "/", "s", "t", "a", "t", "i", "c", "/", "c", "h", "a", "t", "/", "s", "e", "a", "h", "o", "r", "s", "e", ".", "s", "v", "g", ")">>
GREETING_TEXT == <<"H", "e", "l", "l", "o", "!", " ", "A", "s", "k", " ", "m", "e", " ", "a", "n", "y", "t", "h", "i", "n", "g", " ", "y", "o", "u", " ", "w", "a", "n", "t", " ", "t", "o", " ", "r", "e", "s", "e", "a", "r", "c", "h", ".">>
NO_SOURCES_TEXT == <<"I", " ", "c", "o", "u", "l", "d", "n", "'", "t", " ", "r", "e", "t", "r", "i", "e", "v", "e", " ", "w", "e", "b", " ", "s", "o", "u", "r", "c", "e", "s", " ", "f", "o", "r", " ", "t", "h", "a", "t", " ", "q", "u", "e", "s", "t", "i", "o", "n", ".", " ", "P", "l", "e", "a", "s", "e", " ", "t", "r", "y", " ", "a", "g", "a", "i", "n", ".">>
UNAVAILABLE_TEXT ==
    <<"T", "h", "e", " ", "m", "o", "d", "e", "l", " ", "i", "s", " ", "s", "l", "o", "w", " ", "o", "r", " ", "u", "n", "a", "v", "a", "i", "l", "a", "b", "l", "e", " ", "r", "i", "g", "h", "t", " ", "n", "o", "w", ".", " ", "P", "l", "e", "a", "s", "e", " ", "t", "r", "y", " ", "a", "g", "a", "i", "n", " ", "i", "n", " ", "a", " ", "m", "o", "m", "e", "n", "t", ".">>
EMPTY_MESSAGE_ERROR == <<"M", "e", "s", "s", "a", "g", "e", " ", "c", "a", "n", "n", "o", "t", " ", "b", "e", " ", "e", "m", "p", "t", "y", ".">>
IMAGE_TOO_LARGE_ERROR == <<"I", "m", "a", "g", "e", " ", "i", "s", " ", "t", "o", "o", " ", "l", "a", "r", "g", "e", " ", "(", "m", "a", "x", " ", "4", "M", "B", ")", ".">>
INVALID_IMAGE_ERROR == <<"I", "n", "v", "a", "l", "i", "d", " ", "i", "m", "a", "g", "e", " ", "f", "i", "l", "e", ".">>
VISION_SYSTEM_TEXT == <<"You are a vision assistant. Describe the image content concisely.">>
DESCRIBE_TEXT == <<"D", "e", "s", "c", "r", "i", "b", "e", " ", "t", "h", "e", " ", "i", "m", "a", "g", "e", ".">>
IMAGE_SUMMARY_PREFIX == <<"I", "m", "a", "g", "e", " ", "s", "u", "m", "m", "a", "r", "y", ":", " ">>

model_intents ==
    { <<"w", "h", "a", "t", " ", "m", "o", "d", "e", "l", " ", "a", "r", "e", " ", "y", "o", "u">>, <<"w", "h", "i", "c", "h", " ", "m", "o", "d", "e", "l", " ", "a", "r", "e", " ", "y", "o", "u">>, <<"w", "h", "a", "t", " ", "m", "o", "d", "e", "l", " ", "a", "r", "e", " ", "y", "o", "u", " ", "r", "u", "n", "n", "i", "n", "g">>,
      <<"w", "h", "a", "t", " ", "m", "o", "d", "e", "l", " ", "d", "o", " ", "y", "o", "u", " ", "u", "s", "e">>, <<"w", "h", "o", " ", "b", "u", "i", "l", "t", " ", "y", "o", "u">>, <<"w", "h", "o", " ", "m", "a", "d", "e", " ", "y", "o", "u">>,
      <<"w", "h", "o", " ", "c", "r", "e", "a", "t", "e", "d", " ", "y", "o", "u">>, <<"w", "h", "o", " ", "a", "r", "e", " ", "y", "o", "u">>, <<"a", "r", "e", " ", "y", "o", "u", " ", "o", "p", "e", "n", "a", "i">> }

\* _static_response_for_query matching the identity probes exactly
_static_response_for_query_exact(normalized) ==
    IF normalized \in model_intents THEN NON_DISCLOSURE_TEXT
    ELSE IF /\ str_contains(normalized, <<"s", "e", "a", "h", "o", "r", "s", "e">>)
            /\ \/ str_contains(normalized, <<"s", "h", "o", "w">>)
               \/ str_contains(normalized, <<"i", "m", "a", "g", "e">>)
               \/ str_contains(normalized, <<"p", "i", "c", "t", "u", "r", "e">>)
         THEN SEAHORSE_TEXT
    ELSE <<>>

\* the reply of _static_response_for_query, or <<>> for None
_static_response_for_query(normalized) ==
    IF normalized = <<>> THEN <<>>
    ELSE IF \/ normalized \in model_intents
            \/ str_startswith(normalized, <<"w", "h", "a", "t", " ", "m", "o", "d", "e", "l">>)
            \/ str_startswith(normalized, <<"w", "h", "o", " ", "b", "u", "i", "l", "t">>)
         THEN NON_DISCLOSURE_TEXT
    ELSE IF /\ str_contains(normalized, <<"s", "e", "a", "h", "o", "r", "s", "e">>)
            /\ \/ str_contains(normalized, <<"s", "h", "o", "w">>)
               \/ str_contains(normalized, <<"i", "m", "a", "g", "e">>)
               \/ str_contains(normalized, <<"p", "i", "c", "t", "u", "r", "e">>)
         THEN SEAHORSE_TEXT
    ELSE <<>>

_strip_sources_block(text) ==
    LET lowered == str_lower(text)
        marker == str_find(lowered, <<"s", "o", "u", "r", "c", "e", "s", ":">>)
    IN IF marker = -1 THEN text ELSE str_rstrip(str_prefix(text, marker))

-----------------------------------------------------------------------------
(* chat/services.py: the gateway.                                          *)

SYSTEM_PROMPT ==
    <<"You are Axiom, a fast research assistant. Prioritize speed and accuracy. Use provided web context when available. Do not invent facts; acknowledge gaps.">>
NOT_CONFIGURED_TEXT ==
    <<"M", "o", "o", "n", "s", "h", "o", "t", " ", "A", "P", "I", " ", "i", "s", " ", "n", "o", "t", " ", "c", "o", "n", "f", "i", "g", "u", "r", "e", "d", ".", " ", "P", "l", "e", "a", "s", "e", " ", "s", "e", "t", " ", "M", "O", "O", "N", "S", "H", "O", "T", "_", "A", "P", "I", "_", "K", "E", "Y", " ", "a", "n", "d", " ", "M", "O", "O", "N", "S", "H", "O", "T", "_", "M", "O", "D", "E", "L", ".">>

\* json.loads / json.dumps on the documents that occur: a raw string is
\* either not JSON or denotes a value, and dumps writes a value back in
\* json's canonical spacing, which need not be the spacing it was read in.
JsonValueOf(raw) ==
    CASE raw = "{\"error\":\"rate limited\"}" -> "obj:error"
      [] raw = "{\"error\": \"rate limited\"}" -> "obj:error"
      [] raw = "{\"query\":\"latest python version\"}" -> "obj:query"
      [] raw = "{\"query\": \"latest python version\"}" -> "obj:query"
      [] raw = "[1,2]" -> "arr:12"
      [] raw = "[1, 2]" -> "arr:12"
      [] OTHER -> "invalid"

json_parses(raw) == JsonValueOf(raw) # "invalid"

json_dumps(value) ==
    CASE value = "obj:error" -> "{\"error\": \"rate limited\"}"
      [] value = "obj:query" -> "{\"query\": \"latest python version\"}"
      [] value = "arr:12" -> "[1, 2]"

\* What one requests.post can come to: an exception of requests, or a response
\* with a status, a body (raw text) and, for a body that is a chat completion,
\* the shape of choices[0].message.content.
NoText == <<>>
HttpOutcome(kind, status, raw, shape, content) ==
    [kind |-> kind, status |-> status, raw |-> raw, shape |-> shape, content |-> content]

ModelTexts ==
    { <<>>, <<"A", "n", "s", "w", "e", "r">>, <<"A", "n", "s", "w", "e", "r", "\n", "S", "o", "u", "r", "c", "e", "s", ":", " ", "h", "t", "t", "p", ":", "/", "/", "x">>, <<"S", "O", "U", "R", "C", "E", "S", ":", " ", "h", "t", "t", "p", ":", "/", "/", "x">> }

HttpOutcomes ==
    { HttpOutcome("ReadTimeout", 0, "", "none", NoText),
      HttpOutcome("ConnectionError", 0, "", "none", NoText),
      HttpOutcome("response", 429, "{\"error\":\"rate limited\"}", "none", NoText),
      HttpOutcome("response", 500, "<html>Bad Gateway</html>", "none", NoText),
      HttpOutcome("response", 304, "", "none", NoText),
      HttpOutcome("response", 200, "<html>login</html>", "none", NoText),
      HttpOutcome("response", 200, "{\"error\":\"rate limited\"}", "missing", NoText),
      HttpOutcome("response", 200, "completion", "null", NoText) }
    \cup { HttpOutcome("response", 200, "completion", "text", t) : t \in ModelTexts }

\* requests.Response.ok
response_ok(r) == r.status < 400

\* response.json() succeeds
response_is_json(r) == r.raw = "completion" \/ json_parses(r.raw)

NoException == [type |-> "none", status |-> 0, detail |-> ""]
Returned(value, isnone, posts) ==
    [kind |-> "return", value |-> value, none |-> isnone, exc |-> NoException, posts |-> posts]
Raised(type, status, detail, posts) ==
    [kind |-> "raise", value |-> NoText, none |-> FALSE,
     exc |-> [type |-> type, status |-> status, detail |-> detail], posts |-> posts]

\* call_moonshot with the configuration check on the key alone
call_moonshot_key_only(env, msgs, r) ==
    IF ~env.api_key
    THEN Returned(NOT_CONFIGURED_TEXT, FALSE, <<>>)
    ELSE LET posts == <<[messages |-> msgs, tools |-> FALSE]>>
         IN IF r.kind # "response" THEN Raised(r.kind, 0, "", posts)
            ELSE IF r.shape # "text" THEN Raised("HTTPError", r.status, r.raw, posts)
            ELSE Returned(r.content, FALSE, posts)

\* call_moonshot(messages) when requests.post, if reached, comes to outcome r
call_moonshot(env, msgs, r) ==
    IF ~env.api_key \/ ~env.model
    THEN Returned(NOT_CONFIGURED_TEXT, FALSE, <<>>)
    ELSE LET posts == <<[messages |-> msgs, tools |-> FALSE]>>
         IN IF r.kind # "response" THEN Raised(r.kind, 0, "", posts)
            ELSE IF ~response_ok(r)
                 THEN Raised("HTTPError", r.status,
                             IF response_is_json(r) THEN json_dumps(JsonValueOf(r.raw))
                             ELSE r.raw,
                             posts)
            ELSE IF ~response_is_json(r) THEN Raised("JSONDecodeError", 0, "", posts)
            ELSE IF r.shape \notin {"text", "null"} THEN Raised("KeyError", 0, "", posts)
            ELSE Returned(r.content, r.shape = "null", posts)

\* call_moonshot_with_retry retrying until two retries have timed out
call_moonshot_with_retry_twice(env, msgs, r1, r2) ==
    LET first == call_moonshot(env, msgs, r1)
        second == call_moonshot(env, msgs, r2)
    IN IF first.kind = "raise" /\ first.exc.type = "ReadTimeout"
       THEN IF second.kind = "raise" /\ second.exc.type = "ReadTimeout"
            THEN [second EXCEPT !.posts = first.posts \o second.posts \o second.posts]
            ELSE [second EXCEPT !.posts = first.posts \o second.posts]
       ELSE first

\* call_moonshot_with_retry(messages) when the first POST comes to r1 and the
\* second, if made, to r2
call_moonshot_with_retry(env, msgs, r1, r2) ==
    LET first == call_moonshot(env, msgs, r1)
    IN IF first.kind = "raise" /\ first.exc.type = "ReadTimeout"
       THEN LET second == call_moonshot(env, msgs, r2)
            IN [second EXCEPT !.posts = first.posts \o second.posts]
       ELSE first

\* the outcomes of the second POST that matter: none when no retry is made
RetryOutcomes(r1) == IF r1.kind = "ReadTimeout" THEN HttpOutcomes ELSE {r1}

-----------------------------------------------------------------------------
(* Prompt messages.                                                        *)

TextMessage(role, content) == [role |-> role, content |-> content, parts |-> <<>>]
PartsMessage(role, parts) == [role |-> role, content |-> NoText, parts |-> parts]
TextPart(text) == [type |-> "text", text |-> text]
ImagePart == [type |-> "image_url", text |-> NoText]

GatewayPrompts ==
    { <<TextMessage("user", <<"s", "e", "a", "r", "c", "h", " ", "m", "e">>)>>,
      <<TextMessage("system", SYSTEM_PROMPT), TextMessage("user", <<"l", "a", "t", "e", "s", "t", " ", "n", "e", "w", "s">>)>> }

-----------------------------------------------------------------------------
(* chat/services.py: the search helper.                                    *)

Payload(results, fetched) == [results |-> results, fetched |-> fetched]

\* {} and {"results": [], "fetched": []}: every reader takes either through
\* `.get(...) or []`, and a payload without context is never reused
EmptyPayload == Payload(<<>>, <<>>)

\* What mcp_search can return: _run_mcp_search fetches results[:max_fetch],
\* and any exception comes back as the empty payload.
FirstN(n) == [i \in 1..n |-> i]
SearchPayload(n) == Payload(FirstN(n), FirstN(IF n < MAX_FETCH THEN n ELSE MAX_FETCH))
SearchOutcomes == { SearchPayload(0), SearchPayload(1) }

\* one line of the block per item; an item's title, url and content are not modelled
RECURSIVE ResultLines(_)
ResultLines(items) ==
    IF items = <<>> THEN <<>> ELSE <<"\n- <title>: <url>">> \o ResultLines(Tail(items))
RECURSIVE FetchedLines(_)
FetchedLines(items) ==
    IF items = <<>> THEN <<>> ELSE <<"\n- <url>: <content>">> \o FetchedLines(Tail(items))

\* build_context_block: (context_block, sources)
build_context_block(mcp_payload) ==
    LET results == mcp_payload.results
        fetched == mcp_payload.fetched
        shown == SubSeq(results, 1, IF Len(results) < MAX_SOURCES THEN Len(results) ELSE MAX_SOURCES)
    IN [context_block |->
            <<"Web search context:">> \o ResultLines(shown)
            \o (IF fetched # <<>> THEN <<"\nFetched content excerpts:">> \o FetchedLines(fetched)
                ELSE <<>>),
        sources |-> shown]

-----------------------------------------------------------------------------
(* The tool-call orchestrator call_moonshot_with_tools: specification 4.4, *)
(* and the calls chat/tests.py makes of it.                                *)

MAX_TOOL_STEPS == 4
FALLBACK_TEXT ==
    <<"I", " ", "c", "o", "u", "l", "d", "n", "'", "t", " ", "c", "o", "m", "p", "l", "e", "t", "e", " ", "a", " ", "g", "r", "o", "u", "n", "d", "e", "d", " ", "a", "n", "s", "w", "e", "r", " ", "f", "o", "r", " ", "t", "h", "a", "t", " ", "r", "e", "q", "u", "e", "s", "t", ".", " ", "P", "l", "e", "a", "s", "e", " ", "t", "r", "y", " ", "r", "e", "p", "h", "r", "a", "s", "i", "n", "g", ".">>
WEB_SEARCH_TOOL == "$web_search"

ToolCall(id, name, arguments) == [id |-> id, name |-> name, arguments |-> arguments]

\* a message of the working list: a prompt message, the assistant message of
\* a response, or a tool-result message
WorkingMessage(role, content, parts, tool_calls, tool_call_id, name) ==
    [role |-> role, content |-> content, parts |-> parts, tool_calls |-> tool_calls,
     tool_call_id |-> tool_call_id, name |-> name]
PromptMessage(m) == WorkingMessage(m.role, m.content, m.parts, <<>>, "", "")

\* the result of one tool call: the parsed arguments, or {raw: <original>}
\* when they do not parse; echoed for $web_search, wrapped otherwise
ParsedArguments(arguments) ==
    IF json_parses(arguments)
    THEN [t |-> "value", value |-> JsonValueOf(arguments), raw |-> ""]
    ELSE [t |-> "raw", value |-> "", raw |-> arguments]

\* json.dumps of the parsed arguments, as a text
DumpArguments(parsed) ==
    IF parsed.t = "value" THEN <<json_dumps(parsed.value)>>
    ELSE <<"{\"raw\": \"", parsed.raw, "\"}">>

\* ToolResultContent echoing the arguments of every tool
ToolResultContent_echo_all(call) == DumpArguments(ParsedArguments(call.arguments))

ToolResultContent(call) ==
    IF call.name = WEB_SEARCH_TOOL THEN DumpArguments(ParsedArguments(call.arguments))
    ELSE <<"{\"status\": \"unsupported_tool\", \"name\": \"", call.name, "\", \"arguments\": ">>
         \o DumpArguments(ParsedArguments(call.arguments)) \o <<"}">>

ToolMessage(call) ==
    WorkingMessage("tool", ToolResultContent(call), <<>>, <<>>, call.id, call.name)

ToolMessages(tool_calls) == [i \in 1..Len(tool_calls) |-> ToolMessage(tool_calls[i])]

\* the text of an assistant message: a string content verbatim, or the text
\* parts of a structured content joined by newlines and trimmed
TextPartsOf(parts) ==
    LET texts == SelectSeq(parts, LAMBDA p : p.type = "text")
    IN [i \in 1..Len(texts) |-> texts[i].text]

ExtractText(message) ==
    IF message.parts = <<>> THEN message.content
    ELSE str_strip(str_join(<<"\n">>, TextPartsOf(message.parts)))

\* What one POST of the loop can come to: an exception, an error status, or
\* a completion: its assistant message and finish_reason.
Completion(content, parts, tool_calls, finish_reason) ==
    [kind |-> "response", status |-> 200, finish_reason |-> finish_reason,
     message |-> WorkingMessage("assistant", content, parts, tool_calls, "", "")]
Failure(kind, status) ==
    [kind |-> kind, status |-> status, finish_reason |-> "",
     message |-> WorkingMessage("assistant", NoText, <<>>, <<>>, "", "")]

SearchCall == ToolCall("call_1", WEB_SEARCH_TOOL, "{\"query\":\"latest python version\"}")
MalformedCall == ToolCall("call_2", WEB_SEARCH_TOOL, "{query: latest")
OtherToolCall == ToolCall("call_3", "get_weather", "[1,2]")
OtherMalformedCall == ToolCall("call_4", "get_weather", "not json")

ToolOutcomes ==
    { Failure("ReadTimeout", 0),
      Failure("response", 500),
      Completion(<<"d", "o", "n", "e">>, <<>>, <<>>, "stop"),
      Completion(<<"d", "o", "n", "e">>, <<>>, <<SearchCall>>, "tool_calls"),
      Completion(NoText, <<TextPart(<<" ", "p", "a", "r", "t", " ", "o", "n", "e", " ">>), ImagePart, TextPart(<<"t", "w", "o", "\n">>)>>, <<>>, "stop"),
      Completion(NoText, <<>>, <<>>, "stop"),
      Completion(NoText, <<>>, <<>>, "tool_calls"),
      Completion(NoText, <<>>, <<SearchCall>>, "tool_calls"),
      Completion(NoText, <<>>, <<MalformedCall, OtherToolCall>>, "tool_calls"),
      Completion(NoText, <<>>, <<OtherMalformedCall>>, "stop") }

ToolPrompts ==
    { <<PromptMessage(TextMessage("user", <<"l", "a", "t", "e", "s", "t", " ", "p", "y", "t", "h", "o", "n", " ", "v", "e", "r", "s", "i", "o", "n">>))>> }

\* pc: "idle" before the first call, "await" while a POST is due, "done" after
\* the call returned or raised.  steps: the POSTs made in the current pass of
\* the loop; attempt: 1, or 2 after the whole-call retry; posts: every POST of
\* the call with the response it got.
IdleOrchestrator ==
    [n |-> 0, pc |-> "idle", enable_web_search |-> FALSE, messages |-> <<>>,
     working_messages |-> <<>>, steps |-> 0, attempt |-> 1, posts |-> <<>>,
     kind |-> "none", value |-> NoText, exc |-> "none"]

PostRecord(o, response) ==
    [attempt |-> o.attempt, sent |-> Len(o.working_messages), tools |-> o.enable_web_search,
     response |-> response]

\* run(messages, enable_web_search) is called
ToolsCall ==
    /\ orch.pc \in {"idle", "done"}
    /\ orch.n < MaxToolRuns
    /\ \E msgs \in ToolPrompts, enable_web_search \in BOOLEAN :
         orch' = IF environ.api_key /\ environ.model
                 THEN [IdleOrchestrator EXCEPT
                          !.n = orch.n + 1, !.pc = "await",
                          !.enable_web_search = enable_web_search,
                          !.messages = msgs, !.working_messages = msgs]
                 ELSE [IdleOrchestrator EXCEPT
                          !.n = orch.n + 1, !.pc = "done",
                          !.enable_web_search = enable_web_search,
                          !.messages = msgs, !.working_messages = msgs,
                          !.kind = "return", !.value = NOT_CONFIGURED_TEXT]
    /\ UNCHANGED <<environ, sessions, messages, queryCache, sessionCache, clock, turns, last, gw, helper>>

\* LoopStep without the step budget
LoopStep_unbounded(o, response, steps) ==
    LET message == response.message
        text == ExtractText(message)
        tool_messages == ToolMessages(message.tool_calls)
        appended == o.working_messages \o <<message>> \o tool_messages
    IN  IF text # NoText
        THEN [pc |-> "done", working_messages |-> o.working_messages,
              kind |-> "return", value |-> text]
        ELSE IF tool_messages = <<>>
        THEN [pc |-> "done", working_messages |-> o.working_messages,
              kind |-> "return", value |-> FALLBACK_TEXT]
        ELSE [pc |-> "await", working_messages |-> appended,
              kind |-> "none", value |-> NoText]

\* LoopStep looking at the tool calls before the text
LoopStep_tools_first(o, response, steps) ==
    LET message == response.message
        text == ExtractText(message)
        tool_messages == ToolMessages(message.tool_calls)
        appended == o.working_messages \o <<message>> \o tool_messages
    IN  IF tool_messages # <<>>
        THEN IF steps >= MAX_TOOL_STEPS
             THEN [pc |-> "done", working_messages |-> appended,
                   kind |-> "return", value |-> FALLBACK_TEXT]
             ELSE [pc |-> "await", working_messages |-> appended,
                   kind |-> "none", value |-> NoText]
        ELSE [pc |-> "done", working_messages |-> o.working_messages,
              kind |-> "return", value |-> IF text # NoText THEN text ELSE FALLBACK_TEXT]

\* the step of the loop on a completion: (pc, working_messages, kind, value)
\* after the response, steps counting this POST
LoopStep(o, response, steps) ==
    LET message == response.message
        text == ExtractText(message)
        tool_messages == ToolMessages(message.tool_calls)
        appended == o.working_messages \o <<message>> \o tool_messages
    IN  IF text # NoText
        THEN [pc |-> "done", working_messages |-> o.working_messages,
              kind |-> "return", value |-> text]
        ELSE IF response.finish_reason # "tool_calls" /\ message.tool_calls = <<>>
        THEN [pc |-> "done", working_messages |-> o.working_messages,
              kind |-> "return", value |-> FALLBACK_TEXT]
        ELSE IF tool_messages = <<>>
        THEN [pc |-> "done", working_messages |-> Append(o.working_messages, message),
              kind |-> "return", value |-> FALLBACK_TEXT]
        ELSE IF steps >= MAX_TOOL_STEPS
        THEN [pc |-> "done", working_messages |-> appended,
              kind |-> "return", value |-> FALLBACK_TEXT]
        ELSE [pc |-> "await", working_messages |-> appended,
              kind |-> "none", value |-> NoText]

\* one iteration of the loop: working_messages are POSTed and the response,
\* one of `outcomes`, is handled
ToolsPostOver(outcomes) ==
    /\ orch.pc = "await"
    /\ \E response \in outcomes :
         LET posts == Append(orch.posts, PostRecord(orch, response))
             step == LoopStep(orch, response, orch.steps + 1)
         IN  orch' =
               IF response.kind = "ReadTimeout"
               THEN IF orch.attempt = 1
                    THEN \* the whole call is retried once, from the messages given
                         [orch EXCEPT !.attempt = 2, !.steps = 0, !.posts = posts,
                                      !.working_messages = orch.messages]
                    ELSE [orch EXCEPT !.pc = "done", !.steps = @ + 1, !.posts = posts,
                                      !.kind = "raise", !.exc = "ReadTimeout"]
               ELSE IF response.status >= 400
               THEN [orch EXCEPT !.pc = "done", !.steps = @ + 1, !.posts = posts,
                                 !.kind = "raise", !.exc = "HTTPError"]
               ELSE [orch EXCEPT !.pc = step.pc, !.steps = @ + 1, !.posts = posts,
                                 !.working_messages = step.working_messages,
                                 !.kind = step.kind, !.value = step.value]
    /\ UNCHANGED <<environ, sessions, messages, queryCache, sessionCache, clock, turns, last, gw, helper>>

ToolsPost == ToolsPostOver(ToolOutcomes)

-----------------------------------------------------------------------------
(* State.                                                                  *)

Users == {"alice", "bob"}
Environs == [api_key : BOOLEAN, model : BOOLEAN]
Configured == [api_key |-> TRUE, model |-> TRUE]

NoOutcome == HttpOutcome("none", 0, "", "none", NoText)
NoCall == [n |-> 0, fn |-> "none", env |-> [api_key |-> FALSE, model |-> FALSE],
           msgs |-> <<>>, r1 |-> NoOutcome, r2 |-> NoOutcome,
           result |-> Returned(NoText, FALSE, <<>>)]

\* session_id of a request: absent, not a UUID, or the id of a row that may exist
NoId == 0
MalformedId == -1

NoUpload == [size |-> -1, decodable |-> FALSE]
Upload(size, decodable) == [size |-> size, decodable |-> decodable]

NoRequest ==
    [user |-> "", body |-> "none", raw |-> NoText, message_text |-> NoText, sid |-> NoId,
     upload |-> NoUpload]
NoResponse ==
    [req |-> NoRequest, status |-> 0, path |-> "none", text |-> NoText, session_id |-> NoId,
     asst |-> 0, calls |-> <<>>, searches |-> <<>>,
     payload |-> EmptyPayload]

Init ==
    /\ environ \in Environs
    /\ sessions = <<>>
    /\ messages = <<>>
    /\ queryCache = <<>>
    /\ sessionCache = <<>>
    /\ clock = 0
    /\ turns = 0
    /\ last = NoResponse
    /\ gw = NoCall
    /\ orch = IdleOrchestrator
    /\ helper = [fn |-> "none", text |-> NoText, result |-> NoText, again |-> NoText]

\* One direct call of the gateway, as chat/tests.py makes them: of
\* call_moonshot itself or of the retry wrapper.
GatewayCall ==
    /\ gw.n < MaxGatewayCalls
    /\ \E msgs \in GatewayPrompts, r1 \in HttpOutcomes :
         \/ gw' = [n |-> gw.n + 1, fn |-> "call_moonshot", env |-> environ,
                   msgs |-> msgs, r1 |-> r1, r2 |-> r1,
                   result |-> call_moonshot(environ, msgs, r1)]
         \/ \E r2 \in RetryOutcomes(r1) :
              gw' = [n |-> gw.n + 1, fn |-> "call_moonshot_with_retry", env |-> environ,
                     msgs |-> msgs, r1 |-> r1, r2 |-> r2,
                     result |-> call_moonshot_with_retry(environ, msgs, r1, r2)]
    /\ UNCHANGED <<environ, sessions, messages, queryCache, sessionCache, clock, turns, last, orch, helper>>

\* The environment of the process is changed between calls (patch.dict).
SetEnviron ==
    /\ \E e \in Environs : e # environ /\ environ' = e
    /\ UNCHANGED <<sessions, messages, queryCache, sessionCache, clock, turns, last, gw, orch,
                   helper>>

NextGateway == GatewayCall \/ SetEnviron

SpecGateway == Init /\ [][NextGateway]_vars

NextTools == ToolsCall \/ ToolsPost

SpecTools == Init /\ [][NextTools]_vars

-----------------------------------------------------------------------------
(* chat/views.py: chat_send.                                               *)

\* the rows of one session, in creation order
SessionMessages(msgs, session_id) == SelectSeq(msgs, LAMBDA m : m.session = session_id)

\* LastN over created_at ascending
LastN_oldest(s, n) == IF Len(s) <= n THEN s ELSE SubSeq(s, 1, n)

\* order_by("-created_at")[:n], reversed
LastN(s, n) == IF Len(s) <= n THEN s ELSE SubSeq(s, Len(s) - n + 1, Len(s))

\* cache.get / cache.set of the django cache
CacheHas(cache, key) == key \in DOMAIN cache
CacheSet(cache, key, value) ==
    [k \in DOMAIN cache \cup {key} |-> IF k = key THEN value ELSE cache[k]]
CacheDrop(cache, key) == [k \in DOMAIN cache \ {key} |-> cache[k]]

\* the response of the request (status; text: the error or assistant_message)
\* and the record of what the request did: the return it left by (path), the
\* session it resolved, the assistant row it created, the gateway calls and
\* the searches it made
Response(req, status, path, text, session_id, asst, calls, searches) ==
    [req |-> req, status |-> status, path |-> path, text |-> text,
     session_id |-> session_id, asst |-> asst, calls |-> calls, searches |-> searches,
     payload |-> EmptyPayload]

\* the request ends: the rows, the caches and the response are as given
Finish(sessions2, messages2, queryCache2, sessionCache2, response) ==
    /\ sessions' = sessions2
    /\ messages' = messages2
    /\ queryCache' = queryCache2
    /\ sessionCache' = sessionCache2
    /\ last' = response
    /\ clock' = clock + 1
    /\ turns' = turns + 1
    /\ UNCHANGED <<environ, gw, orch, helper>>

\* what the POSTs of one call_moonshot_with_retry come to: the first POST to
\* one of `outcomes` and, after a timeout, the second to one of `retries`
OutcomePairs(outcomes, retries) ==
    {p \in outcomes \X (outcomes \cup retries) :
        IF p[1].kind = "ReadTimeout" THEN p[2] \in retries ELSE p[2] = p[1]}

\* the logical gateway calls chat_send can get; no POST is made, and no outcome
\* drawn, when the key or the model is not configured
CallOutcomes(pairs) ==
    IF environ.api_key /\ environ.model THEN pairs ELSE {<<NoOutcome, NoOutcome>>}

\* one logical gateway call of the request: its messages, how it ended and
\* the number of POSTs it made
LoggedCall(purpose, msgs, result) ==
    [fn |-> "call_moonshot_with_retry", purpose |-> purpose, msgs |-> msgs,
     tools |-> \E i \in 1..Len(result.posts) : result.posts[i].tools,
     kind |-> result.kind, value |-> result.value,
     none |-> result.none, exc |-> result.exc.type, posts |-> Len(result.posts)]

\* final_text catching only the exceptions of requests
final_text_requests_only(result) ==
    IF result.kind = "raise" /\ result.exc.type \in {"ReadTimeout", "ConnectionError", "HTTPError"}
    THEN UNAVAILABLE_TEXT ELSE result.value

\* lines 386-390: the text of the final call, or the generic text when the
\* call raised
final_text(result) == IF result.kind = "raise" THEN UNAVAILABLE_TEXT ELSE result.value

\* lines 365-378: the parts of the user message of an image turn
user_content(message_text, image_description) ==
    LET text_parts ==
            (IF message_text # NoText THEN <<message_text>> ELSE <<>>)
            \o (IF image_description # NoText
                THEN <<IMAGE_SUMMARY_PREFIX \o image_description>> ELSE <<>>)
    IN  (IF text_parts # <<>> THEN <<TextPart(str_join(<<"\n">>, text_parts))>> ELSE <<>>)
        \o <<ImagePart>>

\* turn_messages replaying the history before the image
turn_messages_after_history(image, content, history) ==
    IF image THEN history \o <<PartsMessage("user", content)>> ELSE history

\* lines 364-384: what follows the system messages of the prompt
turn_messages(image, content, history) ==
    IF image THEN <<PartsMessage("user", content)>> ELSE history

\* no_sources for image turns only
no_sources_image_only(image, sources) == image /\ sources = <<>>

\* line 342: a turn without an image has no sources to answer from
no_sources(image, sources) == ~image /\ sources = <<>>

\* lines 356-408: the prompt is assembled, the model is called and the
\* placeholder row t.asst is filled
chat_send_reply(t, mcp_payload, image_description, queryCache2, sessionCache2, outcomes) ==
    LET built == build_context_block(mcp_payload)
        recent == LastN(SessionMessages(t.messages, t.session_id), MAX_HISTORY)
        kept == SelectSeq(recent, LAMBDA m : ~(m.role = "assistant" /\ m.content = NoText))
        history == [i \in 1..Len(kept) |-> TextMessage(kept[i].role, kept[i].content)]
        content == user_content(t.message_text, image_description)
        ResponseWith(payload, response) == [response EXCEPT !.payload = payload]
        prompt_messages ==
            <<TextMessage("system", SYSTEM_PROMPT)>>
            \o (IF built.context_block # NoText
                THEN <<TextMessage("system", built.context_block)>> ELSE <<>>)
            \o turn_messages(t.image, content, history)
    IN  IF no_sources(t.image, built.sources)
        THEN Finish(t.sessions,
                    [t.messages EXCEPT ![t.asst].content = NO_SOURCES_TEXT],
                    queryCache2, sessionCache2,
                    ResponseWith(mcp_payload,
                        Response(t.req, 200, "no_sources", NO_SOURCES_TEXT, t.session_id,
                                 t.asst, t.calls, t.searches)))
        ELSE \E p \in CallOutcomes(outcomes) :
               LET result == call_moonshot_with_retry(environ, prompt_messages, p[1], p[2])
                   calls == Append(t.calls, LoggedCall("final", prompt_messages, result))
                   assistant_text == final_text(result)
                   stripped ==
                       IF assistant_text # NoText THEN _strip_sources_block(assistant_text)
                       ELSE assistant_text
               IN  IF result.kind = "return" /\ result.none
                   THEN \* content = None: the save raises IntegrityError (NOT NULL)
                        Finish(t.sessions, t.messages, queryCache2, sessionCache2,
                               ResponseWith(mcp_payload,
                                   Response(t.req, 500, "unhandled", NoText, t.session_id,
                                            t.asst, calls, t.searches)))
                   ELSE Finish(t.sessions,
                               [t.messages EXCEPT ![t.asst].content = stripped],
                               queryCache2, sessionCache2,
                               ResponseWith(mcp_payload,
                                   Response(t.req, 200, "model", stripped, t.session_id,
                                            t.asst, calls, t.searches)))

\* image_description_of putting the generic text for a failed call
image_description_of_generic(vision) ==
    IF vision.kind = "raise" \/ vision.none THEN UNAVAILABLE_TEXT
    ELSE str_prefix(vision.value, DESCRIPTION_LEN)

\* lines 296-313: the description the vision call comes to; None[:500]
\* raises TypeError, caught like any other exception
image_description_of(vision) ==
    IF vision.kind = "raise" \/ vision.none THEN NoText
    ELSE str_prefix(vision.value, DESCRIPTION_LEN)

\* lines 293-338: the vision description of an image turn, or the cached,
\* reused or fresh search payload of a text turn
chat_send_context(t, outcomes, visionOutcomes) ==
    IF t.image
    THEN \E pv \in CallOutcomes(visionOutcomes) :
           LET vision_messages ==
                   <<TextMessage("system", VISION_SYSTEM_TEXT),
                     PartsMessage("user",
                        <<TextPart(IF t.message_text # NoText THEN t.message_text
                                   ELSE DESCRIBE_TEXT),
                          ImagePart>>)>>
               vision == call_moonshot_with_retry(environ, vision_messages, pv[1], pv[2])
               image_description == image_description_of(vision)
               t2 == [t EXCEPT !.calls = Append(@, LoggedCall("vision", vision_messages, vision))]
               search_query ==
                   str_join(<<" ">>, SelectSeq(<<t.message_text, image_description>>,
                                               LAMBDA x : x # NoText))
           IN  IF image_description # NoText
               THEN \E payload \in SearchOutcomes :
                      chat_send_reply([t2 EXCEPT !.searches = Append(@, search_query)],
                                      payload, image_description,
                                      queryCache, sessionCache, outcomes)
               ELSE chat_send_reply(t2, EmptyPayload, NoText,
                                    queryCache, sessionCache, outcomes)
    ELSE LET cached ==
                 IF CacheHas(queryCache, t.normalized) THEN queryCache[t.normalized].payload
                 ELSE EmptyPayload
         IN  IF _payload_has_context(cached)
             THEN chat_send_reply(t, cached, NoText, queryCache, sessionCache, outcomes)
             ELSE LET has_previous == CacheHas(sessionCache, t.session_id)
                      previous_payload ==
                          IF has_previous THEN sessionCache[t.session_id].payload
                          ELSE EmptyPayload
                      previous_query ==
                          IF has_previous THEN sessionCache[t.session_id].query ELSE NoText
                      reuse == /\ _payload_has_context(previous_payload)
                               /\ _can_reuse_context(t.normalized, previous_query)
                      ttl == _cache_ttl_for_query(t.message_text)
                  IN  \E payload \in (IF reuse THEN {previous_payload} ELSE SearchOutcomes) :
                        chat_send_reply(
                            [t EXCEPT !.searches =
                                        IF reuse THEN @ ELSE Append(@, t.message_text)],
                            payload, NoText,
                            CacheSet(queryCache, t.normalized,
                                     [payload |-> payload, ttl |-> ttl]),
                            CacheSet(sessionCache, t.session_id,
                                     [query |-> t.normalized, payload |-> payload, ttl |-> ttl]),
                            outcomes)

MessageRow(session_id, role, content) ==
    [session |-> session_id, role |-> role, content |-> content, attachments |-> 0]

\* chat_send_canned answering without storing the reply
chat_send_canned_unstored(t, path, assistant_text) ==
    Finish(t.sessions, t.messages, queryCache, sessionCache,
           Response(t.req, 200, path, assistant_text, t.session_id, 0, <<>>, <<>>))

\* a short-circuit reply (lines 252-285): one assistant row with the canned text
chat_send_canned(t, path, assistant_text) ==
    Finish(t.sessions,
           Append(t.messages, MessageRow(t.session_id, "assistant", assistant_text)),
           queryCache, sessionCache,
           Response(t.req, 200, path, assistant_text, t.session_id, Len(t.messages) + 1,
                    <<>>, <<>>))

\* chat_send_image_error undoing what the request stored
chat_send_image_error_rolled_back(t, messages1, image_error) ==
    Finish(sessions, messages, queryCache, sessionCache,
           Response(t.req, 400, "image_error", image_error, t.session_id, 0, <<>>, <<>>))

\* lines 248-249: _compress_image raised ValueError; the session and the user
\* row messages1 stored at lines 220-230 stay, no attachment is created
chat_send_image_error(t, messages1, image_error) ==
    Finish(t.sessions, messages1, queryCache, sessionCache,
           Response(t.req, 400, "image_error", image_error, t.session_id, 0, <<>>, <<>>))

\* _compress_image_error without the decoding
_compress_image_error_size_only(upload) ==
    IF upload.size > MAX_IMAGE_BYTES THEN IMAGE_TOO_LARGE_ERROR ELSE NoText

\* _compress_image: the message of the ValueError it raises, or <<>>
_compress_image_error(upload) ==
    IF upload.size > MAX_IMAGE_BYTES THEN IMAGE_TOO_LARGE_ERROR
    ELSE IF ~upload.decodable THEN INVALID_IMAGE_ERROR
    ELSE NoText

\* is_smalltalk with the length test off by one
is_smalltalk_shorter(has_upload, normalized) ==
    ~has_upload /\ (normalized \in SMALLTALK_SET \/ Len(normalized) < 2)

\* line 252: the turn is small talk
is_smalltalk(has_upload, normalized) ==
    ~has_upload /\ (normalized \in SMALLTALK_SET \/ Len(normalized) <= 2)

\* session_title set by every turn
session_title_overwritten(title, message_text) == str_prefix(message_text, TITLE_LEN)

\* lines 227-228: the title of the session after the turn
session_title(title, message_text) ==
    IF title = NoText THEN str_prefix(message_text, TITLE_LEN) ELSE title

\* session_found without the owner
session_found_any_owner(sid, user) == sid \in 1..Len(sessions)

\* line 221: get_object_or_404(ChatSession, id=session_id, user=request.user)
\* finds the session
session_found(sid, user) == sid \in 1..Len(sessions) /\ sessions[sid].user = user

\* is_empty_request with the test of the upload turned round
is_empty_request_with_upload(message_text, has_upload) == message_text = NoText /\ has_upload

\* line 217: the request has neither text nor image
is_empty_request(message_text, has_upload) == message_text = NoText /\ ~has_upload

\* chat_send of one request: an authenticated POST by `user` whose body is
\* multipart, JSON or not JSON at all
chat_send(user, body, raw, sid, upload, outcomes, visionOutcomes) ==
    LET message_text == IF body = "badjson" THEN NoText ELSE str_strip(raw)
        req == [user |-> user, body |-> body, raw |-> raw, message_text |-> message_text,
                sid |-> sid, upload |-> upload]
        has_upload == upload # NoUpload
        now == clock + 1
        session_id == IF sid = NoId THEN Len(sessions) + 1 ELSE sid
        sessions1 ==
            IF sid = NoId
            THEN Append(sessions, [user |-> user, title |-> NoText, updated_at |-> now])
            ELSE sessions
        sessions2 ==
            [sessions1 EXCEPT ![session_id] =
                [@ EXCEPT !.title = session_title(@, message_text),
                          !.updated_at = now]]
        messages1 == Append(messages, MessageRow(session_id, "user", message_text))
        user_message == Len(messages1)
        image_error == _compress_image_error(upload)
        messages2 ==
            IF has_upload THEN [messages1 EXCEPT ![user_message].attachments = 1]
            ELSE messages1
        normalized == _normalize_query(message_text)
        t == [req |-> req, message_text |-> message_text, normalized |-> normalized,
              session_id |-> session_id, sessions |-> sessions2, messages |-> messages2,
              asst |-> 0, image |-> has_upload, calls |-> <<>>, searches |-> <<>>]
        static_response == _static_response_for_query(normalized)
    IN  IF body = "badjson"
        THEN \* json.loads raises JSONDecodeError, which nothing catches
             Finish(sessions, messages, queryCache, sessionCache,
                    Response(req, 500, "unhandled", NoText, NoId, 0, <<>>, <<>>))
        ELSE IF is_empty_request(message_text, has_upload)
        THEN Finish(sessions, messages, queryCache, sessionCache,
                    Response(req, 400, "empty", EMPTY_MESSAGE_ERROR, NoId, 0, <<>>, <<>>))
        ELSE IF sid = MalformedId
        THEN \* the UUIDField lookup raises ValidationError, which nothing catches
             Finish(sessions, messages, queryCache, sessionCache,
                    Response(req, 500, "unhandled", NoText, NoId, 0, <<>>, <<>>))
        ELSE IF sid # NoId /\ ~session_found(sid, user)
        THEN Finish(sessions, messages, queryCache, sessionCache,
                    Response(req, 404, "not_found", NoText, NoId, 0, <<>>, <<>>))
        ELSE IF has_upload /\ image_error # NoText
        THEN chat_send_image_error(t, messages1, image_error)
        ELSE IF is_smalltalk(has_upload, normalized)
        THEN chat_send_canned(t, "smalltalk", GREETING_TEXT)
        ELSE IF ~has_upload /\ static_response # NoText
        THEN chat_send_canned(t, "static", static_response)
        ELSE chat_send_context(
                 [t EXCEPT !.messages = Append(@, MessageRow(session_id, "assistant", NoText)),
                           !.asst = Len(messages2) + 1],
                 outcomes, visionOutcomes)

-----------------------------------------------------------------------------
(* The requests and environment outcomes the specifications draw from.     *)

Bodies == {"multipart", "json", "badjson"}

\* one of at most `limit` requests, by one of the given users, over the given
\* bodies, texts, session ids, uploads and outcomes of the model calls
ChatSendWithin(limit, users, bodies, texts, sids, uploads, outcomes, visionOutcomes) ==
    /\ turns < limit
    /\ \E user \in users, body \in bodies, raw \in texts, sid \in sids, upload \in uploads :
         /\ body # "multipart" => upload = NoUpload
         /\ body = "badjson" => raw = NoText /\ sid = NoId
         /\ (sid = NoId /\ body # "badjson" /\ (str_strip(raw) # NoText \/ upload # NoUpload))
                => Len(sessions) < MaxSessions
         /\ chat_send(user, body, raw, sid, upload, outcomes, visionOutcomes)

\* the session ids a request can carry: none, one that is no UUID, that of
\* any session and one of no session
SessionIds == {NoId, MalformedId} \cup 1..(Len(sessions) + 1)

ChatSendOver(users, bodies, texts, uploads, outcomes, visionOutcomes) ==
    ChatSendWithin(MaxTurns, users, bodies, texts, SessionIds, uploads, outcomes, visionOutcomes)

UserTexts ==
    { <<>>, <<" ", " ">>, <<" ", "H", "e", "y", "!", " ">>, <<"o", "k">>, <<"l", "a", "t", "e", "s", "t", " ", "P", "y", "t", "h", "o", "n", " ", "2", "0", "2", "4">>, <<"E", "x", "p", "l", "a", "i", "n", " ", "M", "C", "P">> }

Uploads == { NoUpload }

Timeouts == { r \in HttpOutcomes : r.kind = "ReadTimeout" }
Answers == { r \in HttpOutcomes : r.content = <<"A", "n", "s", "w", "e", "r">> }

\* one outcome of every kind chat_send tells apart; a retry times out again
\* or succeeds
ChatOutcomes ==
    OutcomePairs({ r \in HttpOutcomes : \/ r.kind = "ReadTimeout"
                                        \/ r.status = 500
                                        \/ r.shape \in {"missing", "null", "text"} },
                 Timeouts \cup Answers)

VisionOutcomes == OutcomePairs(Timeouts \cup Answers, Timeouts \cup Answers)

\* the bodies of the requests without an upload: JSON, or not JSON at all
JsonBodies == {"json", "badjson"}

ChatSend == ChatSendOver({"alice"}, JsonBodies, UserTexts, Uploads, ChatOutcomes, VisionOutcomes)

Next == ChatSend

\* a cache entry outlives its timeout
CacheExpire ==
    /\ \/ \E k \in DOMAIN queryCache :
            queryCache' = CacheDrop(queryCache, k) /\ UNCHANGED sessionCache
       \/ \E k \in DOMAIN sessionCache :
            sessionCache' = CacheDrop(sessionCache, k) /\ UNCHANGED queryCache
    /\ UNCHANGED <<environ, sessions, messages, clock, turns, last, gw, orch, helper>>

\* One user's sessions, with queries that share two of five, one of five and
\* two of three words, and the cache entries timing out.
ChatSendCache ==
    ChatSendWithin(MaxTurns, {"alice"}, {"json"},
                   { <<"a", "b", "c", " ", "d", "e", "f", " ", "g", "h", "i", " ", "j", "k", "l", " ", "m", "n", "o">>, <<"a", "b", "c", " ", "d", "e", "f", " ", "x", "y", "z">>, <<"a", "b", "c", " ", "u", "v", "w">> },
                   {NoId} \cup 1..Len(sessions), Uploads,
                   OutcomePairs(Answers, {}), VisionOutcomes)

SpecCache == Init /\ [][ChatSendCache \/ CacheExpire]_vars

\* Two users and their sessions, with the cache entries timing out.
UsersTexts == { <<"h", "i">>, <<"E", "x", "p", "l", "a", "i", "n", " ", "M", "C", "P">> }

UsersOutcomes == OutcomePairs(Answers, {})

ChatSendUsers ==
    ChatSendWithin(MaxTurns, Users, {"json"}, UsersTexts, SessionIds, Uploads,
                   UsersOutcomes, VisionOutcomes)

NextUsers == ChatSendUsers \/ CacheExpire

SpecUsers == Init /\ [][NextUsers]_vars

\* the session of the first request
OneSession == IF sessions = <<>> THEN {NoId} ELSE {1}

\* Every way a turn is answered: small talk, the static replies, no sources,
\* the model and its failure, with and without an image.
ChatSendPaths ==
    ChatSendWithin(MaxTurns, {"alice"}, {"multipart"},
                   { <<>>, <<"h", "i">>, <<"W", "h", "o", " ", "a", "r", "e", " ", "y", "o", "u", "?">>, <<"w", "h", "a", "t", " ", "m", "o", "d", "e", "l", " ", "i", "s", " ", "i", "t">>,
                     <<"w", "h", "o", " ", "b", "u", "i", "l", "t", " ", "a", " ", "s", "e", "a", "h", "o", "r", "s", "e", " ", "i", "m", "a", "g", "e">>, <<"S", "h", "o", "w", " ", "s", "e", "a", "h", "o", "r", "s", "e">>, <<"s", "e", "a", "h", "o", "r", "s", "e">>,
                     <<"0", "1", "2", "3", "4", "5", "6", "7", "8", "9", "0", "1", "2", "3", "4", "5", "6", "7", "8", "9", "0", "1", "2", "3", "4", "5", "6", "7", "8", "9", "0", "1", "2", "3", "4", "5", "6", "7", "8", "9", "0", "1", "2", "3", "4", "5", "6", "7", "8", "9", "0", "1", "2", "3", "4", "5", "6", "7", "8", "9", "0", "a", "b">> },
                   OneSession, { NoUpload, Upload(MAX_IMAGE_BYTES, TRUE) },
                   OutcomePairs(Answers \cup Timeouts, Timeouts), OutcomePairs(Answers, {}))

SpecPaths == Init /\ [][ChatSendPaths]_vars

\* A long conversation: text turns of one session.
HistoryTexts == { <<"h", "i">>, <<"E", "x", "p", "l", "a", "i", "n", " ", "M", "C", "P">> }

HistoryOutcomes ==
    OutcomePairs({ r \in HttpOutcomes : \/ r.shape = "null"
                                        \/ r.content \in {<<>>, <<"A", "n", "s", "w", "e", "r">>} /\ r.shape = "text" },
                 {})

ChatSendHistory ==
    ChatSendWithin(MaxHistoryTurns, {"alice"}, {"json"}, HistoryTexts, OneSession, Uploads,
                   HistoryOutcomes, VisionOutcomes)

NextHistory == ChatSendHistory

SpecHistory == Init /\ [][NextHistory]_vars

\* Image turns: multipart requests with an upload, in one session.
ImageTexts == { <<>>, <<"h", "i">> }

ImageUploads ==
    { Upload(MAX_IMAGE_BYTES, TRUE), Upload(MAX_IMAGE_BYTES + 1, TRUE), Upload(MAX_IMAGE_BYTES, FALSE) }

ImageVisionOutcomes ==
    OutcomePairs({ r \in HttpOutcomes : \/ r.kind = "ReadTimeout"
                                        \/ r.status = 500
                                        \/ r.shape = "null"
                                        \/ r.content \in {<<>>, <<"A", "n", "s", "w", "e", "r">>} /\ r.shape = "text" },
                 Timeouts \cup Answers)

ImageChatOutcomes ==
    OutcomePairs({ r \in HttpOutcomes : \/ r.kind = "ReadTimeout"
                                        \/ r.shape = "null"
                                        \/ r.content = <<"A", "n", "s", "w", "e", "r">> },
                 Timeouts)

ChatSendImage ==
    ChatSendWithin(MaxTurns, {"alice"}, {"multipart"}, ImageTexts, OneSession, ImageUploads,
                   ImageChatOutcomes, ImageVisionOutcomes)

NextImage == ChatSendImage

SpecImage == Init /\ [][NextImage]_vars

Spec == Init /\ [][Next]_vars

-----------------------------------------------------------------------------
(* The gateway: claims checked under SpecGateway.                          *)

GatewayConfigured(env) == env.api_key /\ env.model

\* C1: one call of call_moonshot_with_retry makes at most 2 POSTs, each with
\* the messages it was given; if the first POST raises a read timeout exactly
\* one more POST is made; if that one succeeds its text is returned, and if it
\* times out too the timeout propagates to the caller.
C1_RetryExactlyOnce ==
    gw.fn = "call_moonshot_with_retry" =>
        /\ Len(gw.result.posts) <= 2
        /\ \A i \in 1..Len(gw.result.posts) : gw.result.posts[i].messages = gw.msgs
        /\ (GatewayConfigured(gw.env) /\ gw.r1.kind = "ReadTimeout") =>
              /\ Len(gw.result.posts) = 2
              /\ (gw.r2.kind = "response" /\ gw.r2.status = 200 /\ gw.r2.shape = "text") =>
                    /\ gw.result.kind = "return"
                    /\ gw.result.value = gw.r2.content
              /\ gw.r2.kind = "ReadTimeout" =>
                    /\ gw.result.kind = "raise"
                    /\ gw.result.exc.type = "ReadTimeout"
        /\ (GatewayConfigured(gw.env) /\ gw.r1.kind # "ReadTimeout") =>
              Len(gw.result.posts) = 1

\* a timeout followed by a successful retry
C1_Witness ==
    /\ gw.fn = "call_moonshot_with_retry"
    /\ gw.r1.kind = "ReadTimeout"
    /\ Len(gw.result.posts) = 2
    /\ gw.result.kind = "return"
    /\ gw.result.value = <<"A", "n", "s", "w", "e", "r">>

C11_NonSuccessRaises ==
    ( /\ GatewayConfigured(gw.env)
      /\ gw.r1.kind = "response"
      /\ gw.r1.status \notin 200..299 )
    => /\ gw.result.kind = "raise"
       /\ gw.result.exc.type = "HTTPError"
       /\ gw.result.exc.status = gw.r1.status
       /\ gw.result.exc.detail =
             (IF json_parses(gw.r1.raw) THEN json_dumps(JsonValueOf(gw.r1.raw))
              ELSE gw.r1.raw)
       /\ Len(gw.result.posts) = 1

-----------------------------------------------------------------------------
(* The orchestrator: claims checked under SpecTools.                       *)

PostsOfAttempt(a) == {i \in 1..Len(orch.posts) : orch.posts[i].attempt = a}

IsCompletion(response) == response.kind = "response" /\ response.status = 200

\* C5: a response with non-empty text and tool_calls ends the run: the text
\* is returned and no further POST is made.
C5_TextWins ==
    \A i \in 1..Len(orch.posts) :
        LET response == orch.posts[i].response
        IN  ( /\ IsCompletion(response)
              /\ response.message.content # NoText
              /\ response.message.tool_calls # <<>> )
            => /\ i = Len(orch.posts)
               /\ orch.pc = "done"
               /\ orch.kind = "return"
               /\ orch.value = response.message.content

\* text with tool calls came back after a round of tool calls
C5_Witness ==
    /\ Len(orch.posts) = 2
    /\ orch.posts[2].response.message.content = <<"d", "o", "n", "e">>
    /\ orch.posts[2].response.message.tool_calls # <<>>
    /\ orch.pc = "done"
    /\ orch.value = <<"d", "o", "n", "e">>

\* the content the tool message of a call is to have
ExpectedToolContent(call) ==
    CASE call = SearchCall -> <<"{\"query\": \"latest python version\"}">>
      [] call = MalformedCall -> <<"{\"raw\": \"", "{query: latest", "\"}">>
      [] call = OtherToolCall ->
            <<"{\"status\": \"unsupported_tool\", \"name\": \"", "get_weather",
              "\", \"arguments\": ", "[1, 2]", "}">>
      [] call = OtherMalformedCall ->
            <<"{\"status\": \"unsupported_tool\", \"name\": \"", "get_weather",
              "\", \"arguments\": ", "{\"raw\": \"", "not json", "\"}", "}">>

\* the step is a POST answered by an assistant message without text that
\* carries tool calls
ToolCallsStep ==
    /\ orch.pc = "await"
    /\ Len(orch'.posts) = Len(orch.posts) + 1
    /\ LET response == orch'.posts[Len(orch'.posts)].response
       IN  /\ IsCompletion(response)
           /\ ExtractText(response.message) = NoText
           /\ response.message.tool_calls # <<>>

\* the assistant message and one tool message per call were appended
ToolMessagesAppended ==
    LET message == orch'.posts[Len(orch'.posts)].response.message
        calls == message.tool_calls
        before == Len(orch.working_messages)
    IN  /\ Len(orch'.working_messages) = before + 1 + Len(calls)
        /\ SubSeq(orch'.working_messages, 1, before) = orch.working_messages
        /\ orch'.working_messages[before + 1] = message
        /\ \A j \in 1..Len(calls) :
              LET m == orch'.working_messages[before + 1 + j]
              IN  /\ m.role = "tool"
                  /\ m.tool_call_id = calls[j].id
                  /\ m.name = calls[j].name
                  /\ m.content = ExpectedToolContent(calls[j])
        /\ orch'.kind # "raise"

\* C6 as stated: after every such response the messages are appended and
\* sent again.
C6_AlwaysResends ==
    [][ToolCallsStep => (ToolMessagesAppended /\ orch'.pc = "await")]_vars

\* C6: for every tool call of an assistant response without text, the
\* assistant message and then exactly one tool message with the call's id and
\* function name are appended; its content is the JSON of the parsed arguments
\* for $web_search, an unsupported_tool object for another name, {"raw": ...}
\* for arguments that are not JSON, and nothing is raised.  The messages are
\* sent again unless the response answered the 4th POST of the run.
C6_ToolMessages ==
    [][ToolCallsStep =>
          /\ ToolMessagesAppended
          /\ orch.steps + 1 < MAX_TOOL_STEPS => orch'.pc = "await"
          /\ orch.steps + 1 >= MAX_TOOL_STEPS =>
                (orch'.pc = "done" /\ orch'.value = FALLBACK_TEXT)]_vars

\* malformed arguments and an unsupported tool were answered and sent again
C6_Witness ==
    /\ Len(orch.posts) = 2
    /\ orch.posts[1].response.message.tool_calls = <<MalformedCall, OtherToolCall>>
    /\ orch.posts[2].sent = 4
    /\ orch.working_messages[3].content = <<"{\"raw\": \"", "{query: latest", "\"}">>
    /\ orch.working_messages[3].tool_call_id = "call_2"
    /\ orch.working_messages[4].tool_call_id = "call_3"

-----------------------------------------------------------------------------
(* chat_send: claims checked under Spec.                                   *)

\* the request resolved its session and stored the user message
TurnStarted == last.session_id # NoId

FinalCalls == {i \in 1..Len(last.calls) : last.calls[i].purpose = "final"}

\* C2: an error raised by the final model call is caught: the request returns
\* 200 and the assistant message of the turn holds the generic "slow or
\* unavailable" text.
C2_ModelErrorIsCaught ==
    \A i \in FinalCalls :
        last.calls[i].kind = "raise" =>
            /\ last.status = 200
            /\ last.text = UNAVAILABLE_TEXT
            /\ messages[last.asst].role = "assistant"
            /\ messages[last.asst].content = UNAVAILABLE_TEXT

\* the final call timed out twice
C2_Witness ==
    /\ last.status = 200
    /\ \E i \in FinalCalls :
         /\ last.calls[i].exc = "ReadTimeout"
         /\ last.calls[i].posts = 2
    /\ last.text = UNAVAILABLE_TEXT

\* C3: whenever chat_send returns 200, the assistant message persisted for
\* the turn has non-empty content (the fallback string replacing an empty
\* model text), so that no placeholder row remains.
C3_ReplyIsNeverEmpty ==
    last.status = 200 =>
        /\ last.text # NoText
        /\ messages[last.asst].content # NoText

\* C7: a turn without an image whose normalized text is in the small-talk set
\* or at most 2 characters long gets exactly the canned greeting; exactly one
\* assistant row with that text is added after the user row, and no model
\* call and no search is made.
C7_SmallTalkIsCanned ==
    [][ ( /\ turns' = turns + 1
          /\ last'.session_id # NoId
          /\ last'.req.upload = NoUpload
          /\ LET n == _normalize_query(last'.req.message_text)
             IN n \in SMALLTALK_SET \/ Len(n) <= 2 )
        => /\ last'.status = 200
           /\ last'.text = GREETING_TEXT
           /\ last'.calls = <<>>
           /\ last'.searches = <<>>
           /\ Len(messages') = Len(messages) + 2
           /\ SubSeq(messages', 1, Len(messages)) = messages
           /\ messages'[Len(messages) + 1] =
                  MessageRow(last'.session_id, "user", last'.req.message_text)
           /\ messages'[Len(messages) + 2] =
                  MessageRow(last'.session_id, "assistant", GREETING_TEXT) ]_vars

\* "ok": two characters, not in the small-talk set
C7_Witness ==
    /\ last.req.message_text = <<"o", "k">>
    /\ last.status = 200
    /\ last.text = GREETING_TEXT
    /\ last.calls = <<>>

\* the words of the normalized text
Words(text) == Range(str_split(_normalize_query(text)))

MandatorySearchKeywords ==
    { <<"l", "a", "t", "e", "s", "t">>, <<"c", "u", "r", "r", "e", "n", "t">>, <<"t", "o", "d", "a", "y">>, <<"n", "o", "w">>, <<"r", "e", "c", "e", "n", "t">>, <<"r", "e", "l", "e", "a", "s", "e">>,
      <<"v", "e", "r", "s", "i", "o", "n">>, <<"p", "r", "i", "c", "e">>, <<"n", "e", "w", "s">> }

\* a 4-digit year in 1900..2099
IsYear(w) ==
    /\ Len(w) = 4
    /\ SubSeq(w, 1, 2) \in { <<"1", "9">>, <<"2", "0">> }
    /\ w[3] \in DigitChars /\ w[4] \in DigitChars

MandatorySearchText(text) ==
    \E w \in Words(text) : w \in MandatorySearchKeywords \/ IsYear(w)

\* C8: a turn without an image whose text has a mandatory-search keyword or a
\* year, and for which the model is called, is called with a system message
\* (the search notice) right after the first two system messages and with
\* web search enabled.
C8_MandatorySearchNotice ==
    ( /\ TurnStarted
      /\ last.req.upload = NoUpload
      /\ MandatorySearchText(last.req.message_text) )
    => \A i \in FinalCalls :
          last.calls[i].posts > 0 =>
          /\ Len(last.calls[i].msgs) >= 3
          /\ last.calls[i].msgs[3].role = "system"
          /\ last.calls[i].tools

\* C9: a text-only turn that is not short-circuited gets its reply from
\* exactly one call of call_moonshot_with_tools, and makes no MCP search.
C9_ReplyFromOrchestrator ==
    ( /\ TurnStarted
      /\ last.req.upload = NoUpload
      /\ last.path \notin {"smalltalk", "static"} )
    => /\ Len(last.calls) = 1
       /\ last.calls[1].fn = "call_moonshot_with_tools"
       /\ last.searches = <<>>

\* C12: every request resolves to a returned response (a 200 reply, a 400
\* user error or a 404), for every body and every outcome of the search and
\* model calls; none ends in an unhandled exception.
C12_AlwaysAResponse == turns > 0 => last.status \in {200, 400, 404}

\* the request handled in this step has no text once trimmed and no image
EmptyRequestStep ==
    /\ turns' = turns + 1
    /\ last'.req.body \in {"json", "multipart"}
    /\ \A i \in 1..Len(last'.req.raw) : last'.req.raw[i] \in SpaceChars
    /\ last'.req.upload = NoUpload

\* C13: a request with no text (empty after trimming) and no image is
\* rejected with an error before any persistence: no session and no message
\* is created, and no session's title or timestamp changes.
C13_EmptyRejectedFirst ==
    [][EmptyRequestStep =>
          /\ last'.status = 400
          /\ last'.text = EMPTY_MESSAGE_ERROR
          /\ sessions' = sessions
          /\ messages' = messages]_vars

\* blanks were sent to an existing session, which kept its timestamp
C13_Witness ==
    /\ last.status = 400
    /\ last.req.raw = <<" ", " ">>
    /\ last.req.sid = 1
    /\ Len(sessions) = 1
    /\ sessions[1].updated_at < clock
    /\ Len(messages) = 2

-----------------------------------------------------------------------------
(* Image turns: claims checked under SpecImage.                            *)

\* the request of the step names no session or one of its user's
SessionResolves ==
    \/ last'.req.sid = NoId
    \/ /\ last'.req.sid \in 1..Len(sessions)
       /\ sessions[last'.req.sid].user = last'.req.user

\* the request of the step carries an image over 4MB or one that does not decode
BadImageStep ==
    /\ turns' = turns + 1
    /\ last'.req.upload # NoUpload
    /\ last'.req.upload.size > 4 * 1024 * 1024 \/ ~last'.req.upload.decodable
    /\ SessionResolves

\* C14: an upload over the byte limit (4MB), or one that cannot be decoded,
\* is answered 400 with a descriptive message; no attachment and no assistant
\* message is created and no model or search call is made.
C14_BadImageRejected ==
    [][BadImageStep =>
          /\ last'.status = 400
          /\ last'.text = (IF last'.req.upload.size > 4 * 1024 * 1024
                           THEN <<"I", "m", "a", "g", "e", " ", "i", "s", " ", "t", "o", "o", " ", "l", "a", "r", "g", "e", " ", "(", "m", "a", "x", " ", "4", "M", "B", ")", ".">>
                           ELSE <<"I", "n", "v", "a", "l", "i", "d", " ", "i", "m", "a", "g", "e", " ", "f", "i", "l", "e", ".">>)
          /\ last'.calls = <<>>
          /\ last'.searches = <<>>
          /\ Len(messages') = Len(messages) + 1
          /\ SubSeq(messages', 1, Len(messages)) = messages
          /\ messages'[Len(messages')].role = "user"
          /\ \A i \in 1..Len(messages') :
                messages'[i].attachments = (IF i <= Len(messages) THEN messages[i].attachments ELSE 0)]_vars

\* an image of 4MB that does not decode was refused after one that was stored
C14_Witness ==
    /\ last.status = 400
    /\ last.text = <<"I", "n", "v", "a", "l", "i", "d", " ", "i", "m", "a", "g", "e", " ", "f", "i", "l", "e", ".">>
    /\ last.req.upload.size = 4 * 1024 * 1024
    /\ Len(messages) = 3
    /\ messages[1].attachments = 1
    /\ messages[3].attachments = 0

\* the last request carried an image that was stored
ValidImageTurn ==
    /\ turns > 0
    /\ last.req.upload # NoUpload
    /\ last.req.upload.size <= 4 * 1024 * 1024
    /\ last.req.upload.decodable

\* C15: a turn with a valid image makes exactly two logical gateway calls
\* through the retry wrapper, the vision call and then the final call, with
\* no tool calling and no search, and the reply is what the second returns
\* (stated for a configured gateway).
C15_ImageTurnTwoCalls ==
    (ValidImageTurn /\ GatewayConfigured(environ)) =>
        /\ Len(last.calls) = 2
        /\ last.calls[1].purpose = "vision"
        /\ last.calls[2].purpose = "final"
        /\ \A i \in 1..2 : last.calls[i].fn = "call_moonshot_with_retry" /\ ~last.calls[i].tools
        /\ last.searches = <<>>
        /\ (last.calls[2].kind = "return" /\ ~last.calls[2].none) =>
              last.text = last.calls[2].value

\* the vision call of the last request raised, or returned no text to cut
VisionFailed ==
    /\ ValidImageTurn
    /\ Len(last.calls) >= 1
    /\ last.calls[1].purpose = "vision"
    /\ last.calls[1].kind = "raise" \/ last.calls[1].none

HasDescription ==
    /\ last.calls[1].kind = "return"
    /\ ~last.calls[1].none
    /\ last.calls[1].value # NoText

\* C18: the prompt of an image turn is system messages followed by exactly
\* one user message, whatever the history of the session; that message is a
\* list of parts whose last is the image, preceded by one text part iff the
\* text or the vision description is not empty.
C18_ImagePromptHasNoHistory ==
    (ValidImageTurn /\ Len(last.calls) = 2) =>
        LET msgs == last.calls[2].msgs
            n == Len(msgs)
            parts == msgs[n].parts
        IN  /\ n >= 2
            /\ \A i \in 1..(n - 1) : msgs[i].role = "system"
            /\ msgs[n].role = "user"
            /\ parts[Len(parts)] = ImagePart
            /\ \A j \in 1..(Len(parts) - 1) : parts[j].type = "text"
            /\ Len(parts) = (IF last.req.message_text # NoText \/ HasDescription THEN 2 ELSE 1)

\* a second image turn of a session, without text and without description
C18_Witness ==
    /\ ValidImageTurn
    /\ Len(last.calls) = 2
    /\ Len(SessionMessages(messages, last.session_id)) = 4
    /\ last.req.message_text = NoText
    /\ ~HasDescription
    /\ LET msgs == last.calls[2].msgs IN msgs[Len(msgs)].parts = <<ImagePart>>

-----------------------------------------------------------------------------
(* The history window: claims checked under SpecHistory.                   *)

\* the rows of the session of the last request; the last one is the
\* assistant row of the turn
TurnRows == SessionMessages(messages, last.session_id)

\* the rows before the assistant row that are among the last 8 of the session
WindowRows ==
    LET n == Len(TurnRows)
    IN  SubSeq(TurnRows, IF n > 8 THEN n - 7 ELSE 1, n - 1)

IsPlaceholder(m) == m.role = "assistant" /\ m.content = <<>>

\* the messages of the final prompt after its system messages
HistoryPart ==
    LET msgs == last.calls[Len(last.calls)].msgs
    IN  SelectSeq(msgs, LAMBDA m : m.role # "system")

\* C17: for a text-only turn the history part of the prompt is the last 8
\* stored messages of the session, oldest first, without the assistant
\* messages of empty content: it has at most 8 entries, no pending
\* placeholder, and ends with the current user message.
C17_HistoryWindow ==
    (turns > 0 /\ last.req.upload = NoUpload /\ FinalCalls # {}) =>
        LET msgs == last.calls[Len(last.calls)].msgs
            kept == SelectSeq(WindowRows, LAMBDA m : ~IsPlaceholder(m))
            n == Len(HistoryPart)
        IN  /\ \A i \in 1..(Len(msgs) - n) : msgs[i].role = "system"
            /\ n = Len(kept)
            /\ \A i \in 1..n : /\ HistoryPart[i].role = kept[i].role
                               /\ HistoryPart[i].content = kept[i].content
            /\ n <= 8
            /\ \A i \in 1..n : ~IsPlaceholder(HistoryPart[i])
            /\ n >= 1
            /\ HistoryPart[n].role = "user"
            /\ HistoryPart[n].content = last.req.message_text

\* the fifth turn of a session: two of its last 8 rows are assistant rows
\* without content, one of them left by a turn that failed
C17_Witness ==
    /\ turns > 0 /\ FinalCalls # {}
    /\ Len(TurnRows) = 10
    /\ Len(HistoryPart) = 5
    /\ \E i \in 3..9 : IsPlaceholder(TurnRows[i])
    /\ HistoryPart[1].content # TurnRows[1].content

-----------------------------------------------------------------------------
(* Sessions and their owners: claims checked under SpecUsers.              *)

\* the last request was the first of its session, its user has no other
\* session, and it was not answered by a canned reply
FirstTurnOfUser ==
    /\ turns > 0
    /\ last.path \in {"model", "no_sources"}
    /\ Len(SessionMessages(messages, last.session_id)) = 2
    /\ \A s \in 1..Len(sessions) :
          s # last.session_id => sessions[s].user # last.req.user

\* C19: turns in different sessions share no state: whether a turn searches,
\* and the evidence and reply it gets, do not depend on the turns of other
\* sessions.  The first turn of a user's only session finds nothing cached to
\* answer from, as in a system with no other session, and searches.
C19_SessionsIndependent ==
    FirstTurnOfUser => last.searches = <<last.req.message_text>>

\* the request of the step has text and the id of no session, or of a
\* session of another user
ForeignSessionStep ==
    /\ turns' = turns + 1
    /\ last'.req.message_text # <<>>
    /\ last'.req.sid >= 1
    /\ \/ last'.req.sid > Len(sessions)
       \/ sessions[last'.req.sid].user # last'.req.user

-----------------------------------------------------------------------------
(* The text helpers called directly, over bounded texts.                   *)

\* the texts of at most n characters of `chars`
TextsUpTo(chars, n) == UNION {[1..k -> chars] : k \in 0..n}

\* one call of _strip_sources_block(text), and the same applied to its
\* result; the text is a short prefix, or one of eight U+0130, then a marker in
\* some letter case, a near miss or nothing, then a rest
StripSourcesCall ==
    /\ helper.fn = "none"
    /\ \E p \in TextsUpTo({"a", " ", CapIDot}, MaxPrefixLen)
                  \cup {[i \in 1..8 |-> CapIDot], <<"a", "\n", "\n">>},
          m \in { <<"s", "o", "u", "r", "c", "e", "s", ":">>, <<"S", "o", "u", "r", "c", "e", "s", ":">>, <<"S", "O", "U", "R", "C", "E", "S", ":">>, <<"s", "o", "u", "r", "c", "e", "s">>, <<>> },
          r \in { <<>>, <<" ", "x">>, <<"\n", "s", "o", "u", "r", "c", "e", "s", ":", " ", "y">> } :
         helper' = [fn |-> "_strip_sources_block", text |-> p \o m \o r,
                    result |-> _strip_sources_block(p \o m \o r),
                    again |-> _strip_sources_block(_strip_sources_block(p \o m \o r))]
    /\ UNCHANGED <<environ, sessions, messages, queryCache, sessionCache, clock, turns, last,
                   gw, orch>>

\* one call of _normalize_query(text), and the same applied to its result;
\* the text has letters of both cases, a digit, a blank, punctuation and U+0130
NormalizeQueryCall ==
    /\ helper.fn = "none"
    /\ \E text \in TextsUpTo({"A", "b", "1", " ", "!", CapIDot}, MaxQueryLen) :
         helper' = [fn |-> "_normalize_query", text |-> text,
                    result |-> _normalize_query(text),
                    again |-> _normalize_query(_normalize_query(text))]
    /\ UNCHANGED <<environ, sessions, messages, queryCache, sessionCache, clock, turns, last,
                   gw, orch>>

SpecText == Init /\ [][StripSourcesCall \/ NormalizeQueryCall]_vars

-----------------------------------------------------------------------------
(* Text helpers: claims checked under SpecText.                            *)

\* "sources:" in some letter case stands at position i of the text
MarkerAt(text, i) ==
    /\ i + 7 <= Len(text)
    /\ \A j \in 1..8 :
          text[i + j - 1] \in { (<<"s", "o", "u", "r", "c", "e", "s", ":">>)[j], (<<"S", "O", "U", "R", "C", "E", "S", ":">>)[j] }

\* the text contains "sources:" in some letter case
HasMarker(text) == \E i \in 1..Len(text) : MarkerAt(text, i)

\* the text before the first "sources:" in any letter case
BeforeMarker(text) ==
    LET first == CHOOSE i \in 1..Len(text) :
                    MarkerAt(text, i) /\ \A k \in 1..(i - 1) : ~MarkerAt(text, k)
    IN  SubSeq(text, 1, first - 1)

\* C23: _strip_sources_block returns its input unchanged when the input
\* does not contain "sources:" in any letter case; otherwise it returns the
\* text before the first occurrence with trailing whitespace removed; its
\* result never contains "sources:" in any letter case, and applying it
\* twice equals applying it once.
C23_StripSources ==
    helper.fn = "_strip_sources_block" =>
        /\ ~HasMarker(helper.text) => helper.result = helper.text
        /\ HasMarker(helper.text) => helper.result = str_rstrip(BeforeMarker(helper.text))
        /\ ~HasMarker(helper.result)
        /\ helper.again = helper.result

\* C24: _normalize_query is total and idempotent, and its output consists
\* only of lowercase alphanumeric words separated by single spaces, with no
\* leading or trailing space.
C24_NormalizeIdempotent ==
    helper.fn = "_normalize_query" =>
        /\ helper.again = helper.result
        /\ \A i \in 1..Len(helper.result) :
              \/ helper.result[i] = " "
              \/ /\ isalnum(helper.result[i])
                 /\ char_lower(helper.result[i]) = <<helper.result[i]>>
        /\ helper.result # <<>> =>
              helper.result[1] # " " /\ helper.result[Len(helper.result)] # " "
        /\ \A i \in 1..(Len(helper.result) - 1) :
              ~(helper.result[i] = " " /\ helper.result[i + 1] = " ")

\* U+0130, "!" and "b": lowered to four characters, two of them replaced by
\* blanks that are collapsed into one
C24_Witness ==
    /\ helper.fn = "_normalize_query"
    /\ helper.text = <<CapIDot, "!", "b">>
    /\ helper.result = <<"i", " ", "b">>
    /\ helper.again = <<"i", " ", "b">>

-----------------------------------------------------------------------------
(* The paths of a turn: claims checked under SpecPaths.                    *)

\* C21: every chat_send request that returns 200 adds exactly one user
\* message and exactly one assistant message to its session, the user
\* message first, whatever the path (small talk, static reply, no-sources
\* reply, model reply, model failure): the rows stored before are kept, the
\* first new row is the user's text and the second is the reply returned.
C21_OneUserOneAssistant ==
    [][(turns' = turns + 1 /\ last'.status = 200) =>
          /\ Len(messages') = Len(messages) + 2
          /\ SubSeq(messages', 1, Len(messages)) = messages
          /\ messages'[Len(messages) + 1].role = "user"
          /\ messages'[Len(messages) + 1].session = last'.session_id
          /\ messages'[Len(messages) + 1].content = last'.req.message_text
          /\ messages'[Len(messages) + 2].role = "assistant"
          /\ messages'[Len(messages) + 2].session = last'.session_id
          /\ messages'[Len(messages) + 2].content = last'.text
          /\ last'.path \in {"smalltalk", "static", "no_sources", "model"}]_vars

\* the model failed in the second turn of a session: four rows, the last
\* the generic reply
C21_Witness ==
    /\ turns = 2
    /\ last.status = 200
    /\ last.path = "model"
    /\ last.text = UNAVAILABLE_TEXT
    /\ Len(messages) = 4
    /\ messages[4].role = "assistant"
    /\ messages[4].content = UNAVAILABLE_TEXT
    /\ messages[2].content = NO_SOURCES_TEXT

\* `sub` occurs in s
Occurs(s, sub) ==
    \E i \in 1..Len(s) : i + Len(sub) - 1 <= Len(s) /\ SubSeq(s, i, i + Len(sub) - 1) = sub

\* s begins with p
BeginsWith(s, p) == Len(p) <= Len(s) /\ SubSeq(s, 1, Len(p)) = p

\* the normalized text is one of the identity probes, or starts with
\* "what model" or "who built"
IdentityProbe(n) ==
    \/ n \in { <<"w", "h", "a", "t", " ", "m", "o", "d", "e", "l", " ", "a", "r", "e", " ", "y", "o", "u">>, <<"w", "h", "i", "c", "h", " ", "m", "o", "d", "e", "l", " ", "a", "r", "e", " ", "y", "o", "u">>,
               <<"w", "h", "a", "t", " ", "m", "o", "d", "e", "l", " ", "a", "r", "e", " ", "y", "o", "u", " ", "r", "u", "n", "n", "i", "n", "g">>, <<"w", "h", "a", "t", " ", "m", "o", "d", "e", "l", " ", "d", "o", " ", "y", "o", "u", " ", "u", "s", "e">>,
               <<"w", "h", "o", " ", "b", "u", "i", "l", "t", " ", "y", "o", "u">>, <<"w", "h", "o", " ", "m", "a", "d", "e", " ", "y", "o", "u">>, <<"w", "h", "o", " ", "c", "r", "e", "a", "t", "e", "d", " ", "y", "o", "u">>,
               <<"w", "h", "o", " ", "a", "r", "e", " ", "y", "o", "u">>, <<"a", "r", "e", " ", "y", "o", "u", " ", "o", "p", "e", "n", "a", "i">> }
    \/ BeginsWith(n, <<"w", "h", "a", "t", " ", "m", "o", "d", "e", "l">>)
    \/ BeginsWith(n, <<"w", "h", "o", " ", "b", "u", "i", "l", "t">>)

\* the normalized text contains "seahorse" together with "show", "image" or
\* "picture"
SeahorseRequest(n) ==
    /\ Occurs(n, <<"s", "e", "a", "h", "o", "r", "s", "e">>)
    /\ Occurs(n, <<"s", "h", "o", "w">>) \/ Occurs(n, <<"i", "m", "a", "g", "e">>) \/ Occurs(n, <<"p", "i", "c", "t", "u", "r", "e">>)

\* the step answers 200 with the canned text, stores it as the one assistant
\* row of the turn and makes no search and no model call
CannedReply(text) ==
    /\ last'.status = 200
    /\ last'.text = text
    /\ last'.calls = <<>>
    /\ last'.searches = <<>>
    /\ Len(messages') = Len(messages) + 2
    /\ messages'[Len(messages) + 1].role = "user"
    /\ messages'[Len(messages) + 2] = MessageRow(last'.session_id, "assistant", text)

\* the step is a turn without an image that is not small talk
PlainTurn ==
    /\ turns' = turns + 1
    /\ last'.req.upload = NoUpload
    /\ last'.req.message_text # NoText
    /\ \A normalized \in {_normalize_query(last'.req.message_text)} :
          normalized \notin SMALLTALK_SET /\ Len(normalized) > 2

\* the step is a turn with a valid image
ImageTurn ==
    /\ turns' = turns + 1
    /\ last'.req.upload # NoUpload
    /\ last'.status = 200

\* C22 as stated: for a turn without an image that is not small talk, an
\* identity probe (or a text starting with "what model" or "who built") is
\* answered with the non-disclosure text, and a text containing "seahorse"
\* together with "show", "image" or "picture" is answered with the image
\* markdown; in both cases one assistant message is stored and no search or
\* model call is made; with an image attached neither reply is given.
C22_StaticReplies ==
    [][\A normalized \in {_normalize_query(last'.req.message_text)} :
           /\ (PlainTurn /\ IdentityProbe(normalized)) => CannedReply(NON_DISCLOSURE_TEXT)
           /\ (PlainTurn /\ SeahorseRequest(normalized)) => CannedReply(SEAHORSE_TEXT)
           /\ ImageTurn => /\ last'.path # "static"
                           /\ last'.text \notin {NON_DISCLOSURE_TEXT, SEAHORSE_TEXT}]_vars

\* C22 amended: the same, the identity probe taking precedence: a text that
\* is an identity probe and also a seahorse request is answered with the
\* non-disclosure text, and the image markdown is the reply to a seahorse
\* request that is no identity probe.
C22_StaticRepliesInOrder ==
    [][\A normalized \in {_normalize_query(last'.req.message_text)} :
           /\ (PlainTurn /\ IdentityProbe(normalized)) => CannedReply(NON_DISCLOSURE_TEXT)
           /\ (PlainTurn /\ ~IdentityProbe(normalized) /\ SeahorseRequest(normalized))
                  => CannedReply(SEAHORSE_TEXT)
           /\ ImageTurn => /\ last'.path # "static"
                           /\ last'.text \notin {NON_DISCLOSURE_TEXT, SEAHORSE_TEXT}]_vars

\* "who built a seahorse image" was answered with the non-disclosure text
\* after "Show seahorse" was answered with the image markdown
C22_Witness ==
    /\ turns = 2
    /\ last.req.message_text = <<"w", "h", "o", " ", "b", "u", "i", "l", "t", " ", "a", " ", "s", "e", "a", "h", "o", "r", "s", "e", " ", "i", "m", "a", "g", "e">>
    /\ last.text = NON_DISCLOSURE_TEXT
    /\ last.path = "static"
    /\ Len(messages) = 4
    /\ messages[1].content = <<"S", "h", "o", "w", " ", "s", "e", "a", "h", "o", "r", "s", "e">>
    /\ messages[2].content = SEAHORSE_TEXT

\* C28: a session's title is set only while it is empty, to the first 60
\* characters of the text of the turn being processed; a non-empty title is
\* changed by no later turn of any kind, and every turn that stores a user
\* message advances the session's updated_at.
C28_TitleSetOnce ==
    [][/\ Len(sessions') >= Len(sessions)
       /\ \A i \in 1..Len(sessions) :
            sessions[i].title # NoText => sessions'[i].title = sessions[i].title
       /\ \A i \in 1..Len(sessions') :
            (i > Len(sessions) \/ sessions'[i].title # sessions[i].title) =>
               /\ i = last'.session_id
               /\ sessions'[i].title =
                     IF Len(last'.req.message_text) <= 60 THEN last'.req.message_text
                     ELSE SubSeq(last'.req.message_text, 1, 60)
       /\ (/\ Len(messages') > Len(messages)
           /\ messages'[Len(messages) + 1].role = "user") =>
               LET s == messages'[Len(messages) + 1].session
               IN  /\ s \in 1..Len(sessions')
                   /\ s <= Len(sessions) => sessions'[s].updated_at > sessions[s].updated_at
                   /\ sessions'[s].updated_at = clock']_vars

\* a session opened with a text of 63 characters has its first 60 as the
\* title after a second turn with another text
C28_Witness ==
    /\ turns = 2
    /\ Len(sessions) = 1
    /\ Len(sessions[1].title) = 60
    /\ sessions[1].title = SubSeq(messages[1].content, 1, 60)
    /\ Len(messages) = 4
    /\ messages[1].content =
          <<"0", "1", "2", "3", "4", "5", "6", "7", "8", "9", "0", "1", "2", "3", "4", "5", "6", "7", "8", "9", "0", "1", "2", "3", "4", "5", "6", "7", "8", "9", "0", "1", "2", "3", "4", "5", "6", "7", "8", "9", "0", "1", "2", "3", "4", "5", "6", "7", "8", "9", "0", "1", "2", "3", "4", "5", "6", "7", "8", "9", "0", "a", "b">>
    /\ messages[3].content = <<"W", "h", "o", " ", "a", "r", "e", " ", "y", "o", "u", "?">>
    /\ sessions[1].updated_at = 2

-----------------------------------------------------------------------------
(* The search payload of a text turn: claims checked under Spec and        *)
(* SpecCache.                                                               *)

\* the step is a text-only turn that is not short-circuited: a text without
\* an image, sent to a new session or one of the user's, that is neither small
\* talk nor the trigger of a static reply
SearchStageTurn ==
    /\ PlainTurn
    /\ SessionResolves
    /\ \A normalized \in {_normalize_query(last'.req.message_text)} :
          ~IdentityProbe(normalized) /\ ~SeahorseRequest(normalized)

EnoughShared(current, previous) ==
    /\ _tokenize(previous) # {}
    /\ 10 * Cardinality(_tokenize(previous) \cap _tokenize(current))
           >= 4 * Cardinality(_tokenize(previous))

\* the payload has at least one result or fetched item
HasContext(payload) == Len(payload.results) + Len(payload.fetched) > 0

\* (a) the query cache holds a payload with context for the text of the step
QueryCacheHit ==
    /\ _normalize_query(last'.req.message_text) \in DOMAIN queryCache
    /\ HasContext(queryCache[_normalize_query(last'.req.message_text)].payload)

\* (b) the session of the step has a previous payload with context, of a
\* query that shares enough with the text of the step
SessionPayloadReusable ==
    /\ last'.req.sid \in DOMAIN sessionCache
    /\ HasContext(sessionCache[last'.req.sid].payload)
    /\ EnoughShared(last'.req.message_text, sessionCache[last'.req.sid].query)

-----------------------------------------------------------------------------
(* What a rejected upload leaves behind: checked under SpecImage.          *)

\* C27: when an image upload is rejected (oversize or undecodable), what the
\* request has stored is not rolled back: the user message, a newly created
\* session and the session's title and timestamp update remain, so the
\* session holds a user message with no attachment and no assistant reply.
C27_RejectedUploadKeepsRows ==
    [][BadImageStep =>
          /\ last'.status = 400
          /\ Len(messages') = Len(messages) + 1
          /\ messages'[Len(messages')] =
                [session |-> last'.session_id, role |-> "user",
                 content |-> last'.req.message_text, attachments |-> 0]
          /\ \A i \in 1..Len(messages') :
                messages'[i].role = "assistant" => i <= Len(messages)
          /\ IF last'.req.sid = NoId
             THEN /\ Len(sessions') = Len(sessions) + 1
                  /\ last'.session_id = Len(sessions')
                  /\ sessions'[last'.session_id].user = last'.req.user
                  /\ sessions'[last'.session_id].title = last'.req.message_text
             ELSE /\ Len(sessions') = Len(sessions)
                  /\ last'.session_id = last'.req.sid
                  /\ sessions'[last'.session_id].title =
                        (IF sessions[last'.session_id].title = NoText
                         THEN last'.req.message_text
                         ELSE sessions[last'.session_id].title)
                  /\ sessions'[last'.session_id].updated_at
                        > sessions[last'.session_id].updated_at
          /\ sessions'[last'.session_id].updated_at = clock']_vars

\* an oversize image sent with "hi" and no session id: the session it
\* created holds the one user message, and is titled "hi"
C27_Witness ==
    /\ turns = 1
    /\ last.status = 400
    /\ last.text = IMAGE_TOO_LARGE_ERROR
    /\ Len(sessions) = 1
    /\ sessions[1].title = <<"h", "i">>
    /\ sessions[1].updated_at = 1
    /\ Len(messages) = 1
    /\ messages[1] = [session |-> 1, role |-> "user", content |-> <<"h", "i">>, attachments |-> 0]

====
